---- MODULE Spec2Model ----
(***************************************************************************)
(* CutStack: N-up duplex imposition (imposition.py) behind a Flask service *)
(* with a bounded waiting room and a single processing lock (app.py).      *)
(*                                                                         *)
(* Two specifications share this module:                                   *)
(*   JobSpec    - one /process request followed through Imposer.__init__,  *)
(*                calculate_grid and generate, sheet side by sheet side;   *)
(*   ServerSpec - many concurrent /process and /count-pages requests       *)
(*                contending for queue_semaphore and processing_lock.      *)
(***************************************************************************)
EXTENDS Integers, Sequences, FiniteSets, Bags, TLC

VARIABLES
    \* ---- app.py, module state ----
    queue_semaphore,     \* free slots of the BoundedSemaphore
    processing_lock,     \* TRUE while the Lock is held
    requests,            \* ServerSpec: bag of the requests in flight
    \* ---- one /process request and its Imposer (JobSpec) ----
    pc,                  \* position of the request in process()/generate()
    n_up,                \* process(): n_up, Imposer.n_up
    total_input_pages,   \* Imposer.total_input_pages
    grid,                \* <<Imposer.cols, Imposer.rows>>
    sheets_per_stack,    \* generate(): sheets_per_stack
    sheet_idx,           \* generate(): loop variable
    placed,              \* merge_transformed_page calls, in call order
    stamps,              \* drawString calls of _draw_overlay, in call order
    output,              \* output_writer pages, in add_page order
    reached,             \* layout code the request has entered
    status               \* HTTP status returned, 0 while none

serverVars == <<queue_semaphore, processing_lock, requests>>
jobVars == <<pc, n_up, total_input_pages, grid, sheets_per_stack, sheet_idx,
             placed, stamps, output, reached, status>>
vars == <<queue_semaphore, processing_lock, requests, pc, n_up,
          total_input_pages, grid, sheets_per_stack, sheet_idx, placed,
          stamps, output, reached, status>>

(***************************************************************************)
(* Bounds of the model.                                                    *)
(***************************************************************************)
\* largest n_up a request asks for
MaxNUp == 7
\* largest page count of an uploaded document
MaxPages == 15
\* most requests that are between giving up their slot (or being refused)
\* and returning their response
MaxResponding == 1

(***************************************************************************)
(* Program constants.                                                      *)
(***************************************************************************)
MAX_QUEUE_SIZE == 8
\* request.form.get('n_up', 2) and the ValueError fallback
DefaultNUp == 2
\* target_ratio = 1.414, as a fraction RatioNum / RatioDen
RatioNum == 1414
RatioDen == 1000
\* Lengths are in units of 1/254 pt, in which portrait(A4) and the stamp
\* offsets are whole numbers: 1 mm = 72/25.4 pt = 720 units.
UnitsPerMm == 720
UnitsPerPt == 254
A4WidthMm == 210
A4HeightMm == 297
\* text_x = cell_x + 10, text_y = cell_y - 14
StampDx == 10
StampDy == 14

sheet_width == A4WidthMm * UnitsPerMm
sheet_height == A4HeightMm * UnitsPerMm

Abs(x) == IF x < 0 THEN -x ELSE x

\* mutant: floor instead of ceil
FloorDiv(a, b) == a \div b

\* math.ceil(a / b) for a >= 0, b > 0
CeilDiv(a, b) == (a + b - 1) \div b

\* int(math.ceil(math.sqrt(n))) for n >= 0
CeilSqrt(n) == CHOOSE k \in 0..n : k * k >= n /\ \A j \in 0..(k - 1) : j * j < n

(***************************************************************************)
(* Imposer.calculate_grid                                                  *)
(***************************************************************************)
\* the candidates list: (c, r, waste) for c in range(1, limit + 1)
Candidates(n) ==
    LET limit == CeilSqrt(n) + 2
    IN  [c \in 1..limit |->
            LET r == CeilDiv(n, c)
            IN  [c |-> c, r |-> r, waste |-> r * c - n]]

\* The sort key x[2] + abs(x[1]/x[0] - target_ratio) is the fraction
\* KeyNum(x) / (RatioDen * x.c); keys are compared exactly, cross-multiplied.
KeyNum(x) == x.waste * RatioDen * x.c + Abs(RatioDen * x.r - RatioNum * x.c)

\* mutant: the old heuristic, waste alone
KeyLessWasteOnly(x, y) == x.waste < y.waste

\* mutant: the aspect term taken as cols/rows instead of rows/cols
KeyLessLandscape(x, y) ==
    LET num(z) == z.waste * RatioDen * z.r + Abs(RatioDen * z.c - RatioNum * z.r)
    IN  num(x) * y.r < num(y) * x.r

KeyLess(x, y) == KeyNum(x) * y.c < KeyNum(y) * x.c

\* list.sort(key=...) is stable: an element goes after every element whose
\* key is not greater than its own
RECURSIVE InsertByKey(_, _)
InsertByKey(x, s) ==
    IF s = <<>> THEN <<x>>
    ELSE IF KeyLess(x, Head(s)) THEN <<x>> \o s
    ELSE <<Head(s)>> \o InsertByKey(x, Tail(s))

RECURSIVE SortByKey(_)
SortByKey(s) ==
    IF s = <<>> THEN <<>>
    ELSE InsertByKey(s[Len(s)], SortByKey(SubSeq(s, 1, Len(s) - 1)))

calculate_grid(n) ==
    LET best == SortByKey(Candidates(n))[1]
    IN  <<best.c, best.r>>

cols == grid[1]
rows == grid[2]

(***************************************************************************)
(* Imposer._fill_sheet_side and Imposer._draw_overlay                      *)
(*                                                                         *)
(* cell_width = sheet_width / cols and cell_height = sheet_height / rows   *)
(* are fractions, so every x coordinate is kept multiplied by cols and     *)
(* every y coordinate multiplied by rows.                                  *)
(***************************************************************************)
\* the (row, col) pairs of "for row in range(rows): for col in range(cols)"
GridCells == [i \in 1..(rows * cols) |->
                 [row |-> (i - 1) \div cols, col |-> (i - 1) % cols]]

\* current_page_num_1base of _fill_sheet_side
PageNum(sheet, is_front, row, col) ==
    LET stack_index == row * cols + col
        global_pair_index == (sheet * n_up) + stack_index
    IN  IF is_front THEN (global_pair_index * 2) + 1
                    ELSE (global_pair_index * 2) + 2

\* mutant: no mirroring
SameCol(is_front, col) == col

\* target_col of _fill_sheet_side: the back side mirrors the column
TargetCol(is_front, col) == IF is_front THEN col ELSE cols - 1 - col

\* one merge_transformed_page call per grid position whose page exists
FillSheetSide(sheet, is_front) ==
    LET place(cell) ==
            LET target_col == TargetCol(is_front, cell.col)
                target_row == cell.row
            IN  [sheet |-> sheet, front |-> is_front,
                 page |-> PageNum(sheet, is_front, cell.row, cell.col),
                 target_row |-> target_row, target_col |-> target_col,
                 cell_x_global |-> target_col * sheet_width,
                 cell_y_global |-> sheet_height * rows
                                     - (target_row + 1) * sheet_height]
        all == [i \in 1..Len(GridCells) |-> place(GridCells[i])]
    IN  SelectSeq(all, LAMBDA p : p.page <= total_input_pages)

\* mutant: the stamp is put at the unmirrored column
OverlayUnmirrored(is_front, col) == col

\* target_col of _draw_overlay
OverlayTargetCol(is_front, col) == IF is_front THEN col ELSE cols - 1 - col

\* one drawString call per grid position whose page exists
DrawOverlay(sheet, is_front) ==
    LET stamp(cell) ==
            LET stack_index == cell.row * cols + cell.col
                global_pair_index == (sheet * n_up) + stack_index
                page_num == IF is_front THEN (global_pair_index * 2) + 1
                                        ELSE (global_pair_index * 2) + 2
                target_col == OverlayTargetCol(is_front, cell.col)
                cell_x == target_col * sheet_width
                cell_y == sheet_height * rows - cell.row * sheet_height
            IN  [sheet |-> sheet, front |-> is_front,
                 page |-> page_num,
                 row |-> cell.row, target_col |-> target_col,
                 text_x |-> cell_x + StampDx * UnitsPerPt * cols,
                 text_y |-> cell_y - StampDy * UnitsPerPt * rows]
        all == [i \in 1..Len(GridCells) |-> stamp(GridCells[i])]
    IN  SelectSeq(all, LAMBDA t : ~(t.page > total_input_pages))

(***************************************************************************)
(* JobSpec: process() for one request, with Imposer.__init__ and           *)
(* Imposer.generate unfolded.  status is the status the handler is going   *)
(* to return (0: none decided yet); it has returned when pc = "done".      *)
(***************************************************************************)
NUpValues == (-1)..MaxNUp

JobIdle ==
    /\ pc = "request"
    /\ n_up = DefaultNUp
    /\ total_input_pages = 0
    /\ grid = <<1, 1>>
    /\ sheets_per_stack = 0
    /\ sheet_idx = 0
    /\ placed = <<>>
    /\ stamps = <<>>
    /\ output = <<>>
    /\ reached = {}
    /\ status = 0

ServerIdle ==
    /\ queue_semaphore = MAX_QUEUE_SIZE
    /\ processing_lock = FALSE
    /\ requests = EmptyBag

JobInit == ServerIdle /\ JobIdle

\* process(): the request.files checks, int(request.form.get('n_up', 2))
\* and the Content-Length check
Process_Validate ==
    /\ pc = "request"
    /\ \E files \in {"ok", "missing", "no_name"}, parsed \in BOOLEAN,
          v \in NUpValues, too_large \in BOOLEAN :
          IF files # "ok"
          THEN /\ status' = 400
               /\ pc' = "done"
               /\ n_up' = n_up
          ELSE /\ n_up' = IF parsed THEN v ELSE DefaultNUp
               /\ status' = IF too_large THEN 413 ELSE 0
               /\ pc' = IF too_large THEN "done" ELSE "admit"
    /\ UNCHANGED <<serverVars, total_input_pages, grid, sheets_per_stack,
                   sheet_idx, placed, stamps, output, reached>>

\* queue_semaphore.acquire(blocking=False)
Process_Admit ==
    /\ pc = "admit"
    /\ IF queue_semaphore > 0
       THEN /\ queue_semaphore' = queue_semaphore - 1
            /\ pc' = "waitlock"
            /\ status' = status
       ELSE /\ queue_semaphore' = queue_semaphore
            /\ pc' = "done"
            /\ status' = 503
    /\ UNCHANGED <<processing_lock, requests, n_up, total_input_pages, grid,
                   sheets_per_stack, sheet_idx, placed, stamps, output, reached>>

\* with processing_lock: (entry)
Process_Lock ==
    /\ pc = "waitlock"
    /\ ~processing_lock
    /\ processing_lock' = TRUE
    /\ pc' = "locked"
    /\ UNCHANGED <<queue_semaphore, requests, n_up, total_input_pages, grid,
                   sheets_per_stack, sheet_idx, placed, stamps, output,
                   reached, status>>

\* file.seek / file.tell and the second size check
Process_SizeCheck ==
    /\ pc = "locked"
    /\ \E too_large \in BOOLEAN :
          /\ status' = IF too_large THEN 413 ELSE status
          /\ pc' = IF too_large THEN "unlock" ELSE "construct"
    /\ UNCHANGED <<serverVars, n_up, total_input_pages, grid, sheets_per_stack,
                   sheet_idx, placed, stamps, output, reached>>

\* Imposer(file.stream, n_up): PdfReader raises on an unreadable upload,
\* math.sqrt raises ValueError for n < 0
Imposer_init ==
    /\ pc = "construct"
    /\ \E readable \in BOOLEAN, P \in 0..MaxPages :
          IF ~readable
          THEN /\ reached' = reached \cup {"Imposer"}
               /\ status' = 500
               /\ pc' = "unlock"
               /\ UNCHANGED <<total_input_pages, grid>>
          ELSE /\ total_input_pages' = P
               /\ reached' = reached \cup {"Imposer", "calculate_grid"}
               /\ IF n_up < 0
                  THEN /\ status' = 500
                       /\ pc' = "unlock"
                       /\ grid' = grid
                  ELSE /\ grid' = calculate_grid(n_up)
                       /\ status' = status
                       /\ pc' = "generate"
    /\ UNCHANGED <<serverVars, n_up, sheets_per_stack, sheet_idx, placed,
                   stamps, output>>

\* generate() up to the loop: math.ceil(total_input_pages / (2 * n_up))
\* raises ZeroDivisionError for n_up = 0
generate_begin ==
    /\ pc = "generate"
    /\ reached' = reached \cup {"generate"}
    /\ IF n_up = 0
       THEN /\ status' = 500
            /\ pc' = "unlock"
            /\ UNCHANGED <<sheets_per_stack, sheet_idx>>
       ELSE /\ sheets_per_stack' = CeilDiv(total_input_pages, 2 * n_up)
            /\ sheet_idx' = 0
            /\ status' = status
            /\ pc' = IF sheets_per_stack' > 0 THEN "front" ELSE "write"
    /\ UNCHANGED <<serverVars, n_up, total_input_pages, grid, placed, stamps,
                   output>>

\* loop body, front side: _fill_sheet_side, _draw_overlay, add_page
generate_front ==
    /\ pc = "front"
    /\ placed' = placed \o FillSheetSide(sheet_idx, TRUE)
    /\ stamps' = stamps \o DrawOverlay(sheet_idx, TRUE)
    /\ output' = Append(output, [sheet |-> sheet_idx, front |-> TRUE])
    /\ pc' = "back"
    /\ UNCHANGED <<serverVars, n_up, total_input_pages, grid, sheets_per_stack,
                   sheet_idx, reached, status>>

\* loop body, back side, and the step of range(sheets_per_stack)
generate_back ==
    /\ pc = "back"
    /\ placed' = placed \o FillSheetSide(sheet_idx, FALSE)
    /\ stamps' = stamps \o DrawOverlay(sheet_idx, FALSE)
    /\ output' = Append(output, [sheet |-> sheet_idx, front |-> FALSE])
    /\ sheet_idx' = sheet_idx + 1
    /\ pc' = IF sheet_idx + 1 < sheets_per_stack THEN "front" ELSE "write"
    /\ UNCHANGED <<serverVars, n_up, total_input_pages, grid, sheets_per_stack,
                   reached, status>>

\* output_writer.write(output_stream); return output_stream
generate_end ==
    /\ pc = "write"
    /\ pc' = "unlock"
    /\ UNCHANGED <<serverVars, n_up, total_input_pages, grid, sheets_per_stack,
                   sheet_idx, placed, stamps, output, reached, status>>

\* leaving "with processing_lock": by fall-through, return or exception
Process_Unlock ==
    /\ pc = "unlock"
    /\ processing_lock' = FALSE
    /\ pc' = "finally"
    /\ UNCHANGED <<queue_semaphore, requests, n_up, total_input_pages, grid,
                   sheets_per_stack, sheet_idx, placed, stamps, output,
                   reached, status>>

\* finally: queue_semaphore.release()
Process_Release ==
    /\ pc = "finally"
    /\ queue_semaphore' = queue_semaphore + 1
    /\ pc' = "respond"
    /\ UNCHANGED <<processing_lock, requests, n_up, total_input_pages, grid,
                   sheets_per_stack, sheet_idx, placed, stamps, output,
                   reached, status>>

\* return send_file(...), the pending return of 413, or the except clause
Process_Respond ==
    /\ pc = "respond"
    /\ status' = IF status = 0 THEN 200 ELSE status
    /\ pc' = "done"
    /\ UNCHANGED <<serverVars, n_up, total_input_pages, grid, sheets_per_stack,
                   sheet_idx, placed, stamps, output, reached>>

JobNext ==
    \/ Process_Validate
    \/ Process_Admit
    \/ Process_Lock
    \/ Process_SizeCheck
    \/ Imposer_init
    \/ generate_begin
    \/ generate_front
    \/ generate_back
    \/ generate_end
    \/ Process_Unlock
    \/ Process_Release
    \/ Process_Respond

JobSpec == JobInit /\ [][JobNext]_vars

(***************************************************************************)
(* Properties of the layout (JobSpec)                                      *)
(***************************************************************************)
\* calculate_grid(n_up) has returned into Imposer.cols, Imposer.rows
GridSet == "calculate_grid" \in reached /\ n_up >= 0

\* generate() has run to its return statement for a density N >= 1
GenerateReturned ==
    /\ "generate" \in reached
    /\ n_up >= 1
    /\ pc \in {"unlock", "finally", "respond", "done"}

\* ceil(a / b), stated as the least s with s * b >= a
IsCeil(s, a, b) == s * b >= a /\ (s - 1) * b < a

\* cost(c) = waste + |r/c - 1.414| for the candidate with c columns, as the
\* numerator over the denominator RatioDen * c
CostNum(N, c) ==
    LET r == CHOOSE x \in 0..N : IsCeil(x, N, c)
    IN  (r * c - N) * RatioDen * c + Abs(RatioDen * r - RatioNum * c)
CostLeq(N, c, d) == CostNum(N, c) * d <= CostNum(N, d) * c

C7_OutputPages ==
    GenerateReturned =>
        /\ \E S \in 0..total_input_pages :
              /\ IsCeil(S, total_input_pages, 2 * n_up)
              /\ Len(output) = 2 * S
        /\ \A i \in 1..Len(output) :
              output[i] = [sheet |-> (i - 1) \div 2, front |-> (i % 2 = 1)]
        /\ (total_input_pages = 0 => output = <<>>)
        /\ status \in {0, 200}
        /\ (pc = "done" => status = 200)

C7_Done == GenerateReturned /\ pc = "done" /\ status = 200

\* a job of several sheets has been answered
C7_Witness == C7_Done /\ Len(output) >= 4

\* C1: every page 1..P is placed on exactly one (sheet, side, cell).
C1_EveryPageExactlyOnce ==
    GenerateReturned =>
        \A p \in 1..total_input_pages :
            Cardinality({i \in 1..Len(placed) : placed[i].page = p}) = 1

\* C6: a request with n_up < 1 is refused before the Imposer is
\* constructed and before calculate_grid or generate run.
C6_InvalidDensityRejectedEarly == n_up < 1 => reached = {}

(***************************************************************************)
(* Cutting the printed stack.  The piece of sheet s whose front shows grid *)
(* cell (row, col) shows, turned over about its vertical axis, the cell    *)
(* (row, cols - 1 - col) of the back side.                                 *)
(***************************************************************************)
\* the page printed on a cell of a sheet side, 0 for an empty cell
PageAt(s, f, r, c) ==
    LET hits == {i \in 1..Len(placed) :
                    /\ placed[i].sheet = s /\ placed[i].front = f
                    /\ placed[i].target_row = r /\ placed[i].target_col = c}
    IN  IF hits = {} THEN 0 ELSE placed[CHOOSE i \in hits : TRUE].page

\* the pages of one leaf: sub-stack k of sheet s, front then back
Leaf(s, k) ==
    LET r == k \div cols
        c == k % cols
        f == PageAt(s, TRUE, r, c)
        b == PageAt(s, FALSE, r, cols - 1 - c)
    IN  (IF f = 0 THEN <<>> ELSE <<f>>) \o (IF b = 0 THEN <<>> ELSE <<b>>)

\* sub-stack k read top to bottom, from sheet s on
RECURSIVE SubStack(_, _)
SubStack(k, s) ==
    IF s >= sheets_per_stack THEN <<>> ELSE Leaf(s, k) \o SubStack(k, s + 1)

\* the sub-stacks k, k+1, ..., N-1 one after the other
RECURSIVE StacksFrom(_)
StacksFrom(k) ==
    IF k >= n_up THEN <<>> ELSE SubStack(k, 0) \o StacksFrom(k + 1)

\* the leaves k, k+1, ..., N-1 of sheet s
RECURSIVE SheetLeaves(_, _)
SheetLeaves(s, k) ==
    IF k >= n_up THEN <<>> ELSE Leaf(s, k) \o SheetLeaves(s, k + 1)

\* sheet by sheet, the leaves of each sheet in stack-index order
RECURSIVE SheetsFrom(_)
SheetsFrom(s) ==
    IF s >= sheets_per_stack THEN <<>>
    ELSE SheetLeaves(s, 0) \o SheetsFrom(s + 1)

SourceOrder == [i \in 1..total_input_pages |-> i]

\* C2 as claimed: reading each sub-stack top to bottom and concatenating the
\* sub-stacks in stack-index order 0..N-1 yields pages 1, 2, ..., P.
C2_StackByStackOrder == GenerateReturned => StacksFrom(0) = SourceOrder

\* C2 as amended: taking the leaves sheet by sheet (sheet 0 first), and
\* within a sheet in stack-index order 0..N-1, front page then back page of
\* each leaf, yields pages 1, 2, ..., P.
C2_SheetBySheetOrder == GenerateReturned => SheetsFrom(0) = SourceOrder

\* several sheets of a grid with mirrored columns have been cut
C2_Witness ==
    /\ GenerateReturned
    /\ sheets_per_stack >= 2
    /\ cols >= 2
    /\ total_input_pages > 2 * n_up

\* the stamps of side (s, f) whose anchor (text_x, text_y) lies inside the
\* rectangle of grid cell (row, tc)
StampsInCell(s, f, row, tc) ==
    {j \in 1..Len(stamps) :
        /\ stamps[j].sheet = s /\ stamps[j].front = f
        /\ tc * sheet_width <= stamps[j].text_x
        /\ stamps[j].text_x < (tc + 1) * sheet_width
        /\ (rows - row - 1) * sheet_height <= stamps[j].text_y
        /\ stamps[j].text_y < (rows - row) * sheet_height}

\* the content placed on side (s, f) in grid cell (row, tc)
ContentInCell(s, f, row, tc) ==
    {j \in 1..Len(placed) :
        /\ placed[j].sheet = s /\ placed[j].front = f
        /\ placed[j].target_row = row /\ placed[j].target_col = tc
        /\ placed[j].cell_x_global = tc * sheet_width
        /\ placed[j].cell_y_global = (rows - row - 1) * sheet_height}

Kinds == {"process", "count_pages"}

\* the number of requests in flight that stand at the given position
CountAt(position) ==
    LET S == {r \in DOMAIN requests : r.pc = position}
    IN  BagCardinality([r \in S |-> requests[r]])

Responding == CountAt("respond")
InLock == CountAt("locked")
RECURSIVE SumHeld(_)
SumHeld(S) ==
    IF S = {} THEN 0
    ELSE LET r == CHOOSE x \in S : TRUE
         IN  (r.acquired - r.released) * requests[r] + SumHeld(S \ {r})
\* slots held by the requests in flight
Holders == SumHeld(DOMAIN requests)

Replace(old, new) == (requests (-) SetToBag({old})) (+) SetToBag({new})

\* mutant: the test lets a request through with no slot free
AdmittedAtZero == queue_semaphore >= 0

\* queue_semaphore.acquire(blocking=False) succeeds
Admitted == queue_semaphore > 0

\* mutant: the with block is entered without taking the lock
LockIgnored == TRUE

\* processing_lock can be taken
LockFree == ~processing_lock

StatusOf(result) ==
    IF result = "ok" THEN 200 ELSE IF result = "too_large" THEN 413 ELSE 500

\* the request as it stands after the checks before the try block and the
\* non-blocking acquire
Incoming(kind, files, too_large) ==
    LET base == [kind |-> kind, pc |-> "respond", result |-> "none",
                 status |-> 0, found_full |-> FALSE, acquired |-> 0,
                 released |-> 0, locks |-> 0]
    IN  IF files # "ok" THEN [base EXCEPT !.status = 400]
        ELSE IF kind = "process" /\ too_large THEN [base EXCEPT !.status = 413]
        ELSE IF Admitted
             THEN [base EXCEPT !.pc = "waitlock", !.acquired = 1,
                               !.found_full = (queue_semaphore = 0)]
             ELSE [base EXCEPT !.status = 503,
                               !.found_full = (queue_semaphore = 0)]

\* mutant: the slot is released after the with block instead of in a
\* finally clause, so the return of 413 skips it
LeftLockNoFinally(r, result) ==
    IF result = "too_large"
    THEN [r EXCEPT !.pc = "respond", !.result = result, !.status = 413]
    ELSE [r EXCEPT !.pc = "finally", !.result = result]

\* the request after leaving the with block with the given result
LeftLock(r, result) == [r EXCEPT !.pc = "finally", !.result = result]

\* process() / count_pages() up to and including the non-blocking acquire
Arrive ==
    /\ \E kind \in Kinds, files \in {"ok", "missing", "no_name"},
          too_large \in BOOLEAN :
          LET r == Incoming(kind, files, too_large)
          IN  /\ r.pc = "respond" => Responding < MaxResponding
              /\ requests' = requests (+) SetToBag({r})
              /\ queue_semaphore' = queue_semaphore - r.acquired
    /\ UNCHANGED <<processing_lock, jobVars>>

\* with processing_lock: a blocking acquire
EnterLock ==
    /\ LockFree
    /\ \E r \in DOMAIN requests :
          /\ r.pc = "waitlock"
          /\ requests' = Replace(r, [r EXCEPT !.pc = "locked", !.locks = @ + 1])
    /\ processing_lock' = TRUE
    /\ UNCHANGED <<queue_semaphore, jobVars>>

\* the body of the with block and its exit, which releases the lock:
\* process() may return 413, raise, or finish generate();
\* count_pages() may raise or finish counting
LeaveLock ==
    /\ \E r \in DOMAIN requests :
          /\ r.pc = "locked"
          /\ \E result \in (IF r.kind = "process"
                            THEN {"ok", "too_large", "error"}
                            ELSE {"ok", "error"}) :
                requests' = Replace(r, LeftLock(r, result))
    /\ processing_lock' = FALSE
    /\ UNCHANGED <<queue_semaphore, jobVars>>

\* finally: queue_semaphore.release(); a BoundedSemaphore raises ValueError
\* instead of going over its initial value
ReleaseSlot ==
    /\ Responding < MaxResponding
    /\ \E r \in DOMAIN requests :
          /\ r.pc = "finally"
          /\ IF queue_semaphore < MAX_QUEUE_SIZE
             THEN /\ queue_semaphore' = queue_semaphore + 1
                  /\ requests' = Replace(r, [r EXCEPT !.pc = "respond",
                                                !.released = @ + 1,
                                                !.status = StatusOf(r.result)])
             ELSE /\ queue_semaphore' = queue_semaphore
                  /\ requests' = Replace(r, [r EXCEPT !.pc = "respond",
                                                !.status = 500])
    /\ UNCHANGED <<processing_lock, jobVars>>

\* the handler returns its response
Return ==
    /\ \E r \in DOMAIN requests :
          /\ r.pc = "respond"
          /\ requests' = requests (-) SetToBag({r})
    /\ UNCHANGED <<queue_semaphore, processing_lock, jobVars>>

ServerInit == ServerIdle /\ JobIdle

ServerNext == Arrive \/ EnterLock \/ LeaveLock \/ ReleaseSlot \/ Return

ServerSpec == ServerInit /\ [][ServerNext]_vars

(***************************************************************************)
(* Properties of the service (ServerSpec)                                  *)
(***************************************************************************)
\* C3: at most one request at a time is inside the section guarded by
\* processing_lock.
C3_MutualExclusion ==
    /\ InLock <= 1
    /\ processing_lock <=> (InLock = 1)

\* one request of each kind contends for the lock the other one holds
C3_Witness ==
    \E r, w \in DOMAIN requests :
        r.pc = "locked" /\ w.pc = "waitlock" /\ r.kind # w.kind

\* C4: at most MAX_QUEUE_SIZE requests hold a slot at a time; a request
\* that finds every slot taken is answered 503 at once, without taking or
\* releasing a slot and without waiting for or taking the lock.
C4_BoundedAdmission ==
    /\ Holders <= MAX_QUEUE_SIZE
    /\ queue_semaphore = MAX_QUEUE_SIZE - Holders
    /\ \A r \in DOMAIN requests :
          r.found_full =>
              /\ r.pc = "respond"
              /\ r.status = 503
              /\ r.acquired = 0 /\ r.released = 0 /\ r.locks = 0

\* every slot is held and a further request has been turned away
C4_Witness ==
    /\ Holders = MAX_QUEUE_SIZE
    /\ \E r \in DOMAIN requests : r.found_full /\ r.status = 503

\* C5: a request that took a slot gives it back exactly once, before it
\* returns, however the guarded section was left; with no request in flight
\* every slot and the lock are free; no request gives back a slot it did
\* not take.
C5_SlotReleasedExactlyOnce ==
    /\ \A r \in DOMAIN requests :
          /\ r.released <= r.acquired
          /\ r.pc = "respond" => r.released = r.acquired
          /\ r.pc \in {"waitlock", "locked", "finally"} =>
                r.acquired = 1 /\ r.released = 0
          /\ r.pc = "finally" => r.result \in {"ok", "too_large", "error"}
    /\ requests = EmptyBag =>
          queue_semaphore = MAX_QUEUE_SIZE /\ ~processing_lock

\* the 413 return taken inside the lock has given its slot back
C5_Witness ==
    \E r \in DOMAIN requests :
        /\ r.pc = "respond" /\ r.result = "too_large"
        /\ r.acquired = 1 /\ r.released = 1
====
